---------------------------- MODULE Spec2Model ----------------------------
(***************************************************************************)
(* Model of hypothesis/user-agent-analysis.                                *)
(*                                                                         *)
(*   parse_access_log.py  reads nginx "combined" log lines from stdin,     *)
(*                        parses each User-Agent header into product       *)
(*                        tokens, drops bots, ranks the tokens, infers the *)
(*                        equivalent major browser and writes a CSV row.   *)
(*   analyze_stats.py     reads such a CSV and reports which share of the  *)
(*                        rows matches a browser version query.            *)
(*                                                                         *)
(* Python strings are TLA+ strings; positions are Python's (0-based).      *)
(* An optional value (None or a string) is a sequence of length 0 or 1.    *)
(* A raised exception is a value of its own (kind "raise"), never a        *)
(* result.                                                                 *)
(***************************************************************************)
EXTENDS Integers, Sequences, FiniteSets, TLC

----------------------------------------------------------------------------
(* Strings                                                                 *)

None == <<>>

Some(x) == <<x>>

Min(a, b) == IF a < b THEN a ELSE b

\* s[p] for a Python position p (0 <= p < len(s)).
Ch(s, p) == SubSeq(s, p + 1, p + 1)

\* s[a:b], with Python's clipping of the bounds.
Slice(s, a, b) == SubSeq(s, Min(a, Len(s)) + 1, Min(b, Len(s)))

\* s[a:]
From(s, a) == Slice(s, a, Len(s))

StartsWithAt(s, p, lit) == /\ p + Len(lit) <= Len(s)
                           /\ Slice(s, p, p + Len(lit)) = lit

LowerLetters ==
    {"a", "b", "c", "d", "e", "f", "g", "h", "i", "j", "k", "l", "m",
     "n", "o", "p", "q", "r", "s", "t", "u", "v", "w", "x", "y", "z"}

UpperLetters ==
    {"A", "B", "C", "D", "E", "F", "G", "H", "I", "J", "K", "L", "M",
     "N", "O", "P", "Q", "R", "S", "T", "U", "V", "W", "X", "Y", "Z"}

Digits == {"0", "1", "2", "3", "4", "5", "6", "7", "8", "9"}

IsLetter(c) == c \in LowerLetters \/ c \in UpperLetters

IsDigit(c) == c \in Digits

\* \w of the re module, over the ASCII characters of the model.
IsWordChar(c) == IsLetter(c) \/ IsDigit(c) \/ c = "_"

\* The character classes of the program's regular expressions.
InClass(class, c) ==
    CASE class = "[\\w .]" -> IsWordChar(c) \/ c = " " \/ c = "."
      [] class = "[^ ]"    -> c # " "
      [] class = "[^]]"    -> c # "]"
      [] class = "[^\"]"   -> c # "\""
      [] class = "[0-9]"   -> IsDigit(c)
      [] class = "[0-9.]"  -> IsDigit(c) \/ c = "."
      [] class = "[0-9_]"  -> IsDigit(c) \/ c = "_"
      [] class = "\\w"      -> IsWordChar(c)
      [] class = "\\s"      -> c = " "

\* The least element of a non-empty set of positions.
Least(positions) == CHOOSE q \in positions : \A r \in positions : q <= r

\* The greatest element of a non-empty set of positions.
Greatest(positions) == CHOOSE q \in positions : \A r \in positions : q >= r

\* The end of the longest run of characters of the class that starts at p:
\* the least position >= p whose character is not in the class, or len(s).
RunEnd(s, p, class) ==
    LET stops == {q \in p..(Len(s) - 1) : ~InClass(class, Ch(s, q))}
    IN  IF stops # {} THEN Least(stops)
        ELSE IF p > Len(s) THEN p
        ELSE Len(s)

\* str.strip(); the only whitespace of the model's alphabet is the space.
Strip(s) ==
    LET kept == {q \in 0..(Len(s) - 1) : Ch(s, q) # " "}
    IN  IF kept = {} THEN "" ELSE Slice(s, Least(kept), Greatest(kept) + 1)

\* s.find(c) for a one-character string c: the position of its first
\* occurrence, or -1.
Find(s, c) ==
    LET at == {q \in 0..(Len(s) - 1) : Ch(s, q) = c}
    IN  IF at = {} THEN -1 ELSE Least(at)

\* c.lower() for a one-character string.
Lower(c) ==
    IF c \in UpperLetters
    THEN Ch("abcdefghijklmnopqrstuvwxyz", Find("ABCDEFGHIJKLMNOPQRSTUVWXYZ", c))
    ELSE c

RECURSIVE LowerStr(_)
\* s.lower()
LowerStr(s) == IF Len(s) = 0 THEN "" ELSE Lower(Ch(s, 0)) \o LowerStr(From(s, 1))

\* s.split(sep)[0] for a one-character separator.
SplitFirst(s, sep) == IF Find(s, sep) = -1 THEN s ELSE Slice(s, 0, Find(s, sep))

RECURSIVE Split(_, _)
\* s.split(sep) for a one-character separator.
Split(s, sep) ==
    IF Find(s, sep) = -1 THEN <<s>>
    ELSE <<Slice(s, 0, Find(s, sep))>> \o Split(From(s, Find(s, sep) + 1), sep)

RECURSIVE Replace(_, _, _)
\* s.replace(old, new) for one-character strings.
Replace(s, old, new) ==
    IF Find(s, old) = -1 THEN s
    ELSE Slice(s, 0, Find(s, old)) \o new \o Replace(From(s, Find(s, old) + 1), old, new)

RECURSIVE ParseInt(_)
\* int(s) for a string of decimal digits (the caller checks that it is one).
ParseInt(s) ==
    IF Len(s) = 0 THEN 0
    ELSE 10 * ParseInt(Slice(s, 0, Len(s) - 1))
         + (CHOOSE d \in 0..9 : Ch("0123456789", d) = Ch(s, Len(s) - 1))

IsDecimal(s) == Len(s) > 0 /\ RunEnd(s, 0, "[0-9]") = Len(s)

----------------------------------------------------------------------------
(* parse_user_agent                                                        *)

\* A product token: the tuple (product_name, version, comment).
Token(name, version, comment) ==
    [name |-> name, version |-> version, comment |-> comment]

\* re.match(name_version_pat, s) with name_version_pat = "^([\w .]+)(/([^ ]+))?".
\* The name is the longest run of [\w .] (no shorter name is followed by a
\* "/"), the version the longest run of non-spaces after a "/".
NameVersionMatch(s) ==
    LET n == RunEnd(s, 0, "[\\w .]")
        v == RunEnd(s, n + 1, "[^ ]")
        hasVersion == n < Len(s) /\ Ch(s, n) = "/" /\ v > n + 1
    IN  [matched |-> n > 0,
         name    |-> Slice(s, 0, n),
         version |-> IF hasVersion THEN Some(Slice(s, n + 1, v)) ELSE None,
         len     |-> IF hasVersion THEN v ELSE n]

\* The depth of the comment scan after position p of s (s[0] = "(").
DepthAfter(s, p) ==
    1 + Cardinality({q \in 1..p : Ch(s, q) = "("}) - Cardinality({q \in 1..p : Ch(s, q) = ")"})

\* The value of the local `pos` after the comment scan over s (s[0] = "("),
\* given its value before (-1: not yet bound). The loop runs pos over
\* range(1, len(s)), which is empty when nothing follows the "(", and
\* breaks at the first ")" that brings depth to 0.
CommentScan(s, pos) ==
    LET closes == {p \in 1..(Len(s) - 1) : Ch(s, p) = ")" /\ DepthAfter(s, p) = 0}
    IN  IF closes # {} THEN Least(closes)
        ELSE IF Len(s) > 1 THEN Len(s) - 1
        ELSE pos

ParseOk(tokens) == [kind |-> "ok", tokens |-> tokens, error |-> ""]

ParseRaise(error) == [kind |-> "raise", tokens |-> <<>>, error |-> error]

RECURSIVE ParseLoop(_, _, _)
\* The `while True` loop: s is user_agent_str, pos the local of the comment
\* scan, which keeps its value from one token to the next.
ParseLoop(s, product_tokens, pos) ==
    LET m == NameVersionMatch(s)
        rest == Strip(From(s, m.len))
        hasComment == Len(rest) > 0 /\ Ch(rest, 0) = "("
        newpos == CommentScan(rest, pos)
    IN  IF ~m.matched THEN ParseOk(product_tokens)
        ELSE IF ~hasComment
             THEN ParseLoop(rest, Append(product_tokens, Token(m.name, m.version, None)), pos)
        ELSE IF newpos = -1 THEN ParseRaise("UnboundLocalError")
        ELSE ParseLoop(Strip(From(rest, newpos + 1)),
                       Append(product_tokens,
                              Token(m.name, m.version, Some(Slice(rest, 1, newpos)))),
                       newpos)

parse_user_agent(user_agent_str) == ParseLoop(Strip(user_agent_str), <<>>, -1)

----------------------------------------------------------------------------
(* sort_user_agent_tokens                                                  *)

generic_product_names ==
    <<"Mozilla", "Gecko", "AppleWebKit", "Safari", "Mobile Safari", "Mobile", "Chrome">>

\* generic_product_names.index(name), 0-based; the caller checks membership.
TableIndex(name) ==
    (CHOOSE i \in 1..Len(generic_product_names) : generic_product_names[i] = name) - 1

InTable(name) == \E i \in 1..Len(generic_product_names) : generic_product_names[i] = name

\* token_priority with the table position itself as the key.
token_priority_by_index(token) ==
    IF InTable(token.name) THEN TableIndex(token.name) ELSE -1

\* token_priority with names outside the table ranked behind the table.
token_priority_unknown_last(token) ==
    IF InTable(token.name)
    THEN Len(generic_product_names) - TableIndex(token.name)
    ELSE Len(generic_product_names) + 1

token_priority(token) ==
    IF InTable(token.name)
    THEN Len(generic_product_names) - TableIndex(token.name)
    ELSE -1

\* Insert t into the sorted sequence seq behind every element whose key is
\* not greater than t's: what keeps the sort stable.
InsertByPriority(seq, t) ==
    LET before == {i \in 1..Len(seq) : token_priority(seq[i]) <= token_priority(t)}
        k == Cardinality(before)
    IN  SubSeq(seq, 1, k) \o <<t>> \o SubSeq(seq, k + 1, Len(seq))

RECURSIVE sort_user_agent_tokens(_)
\* sorted(tokens, key=token_priority): ascending, stable.
sort_user_agent_tokens(tokens) ==
    IF tokens = <<>> THEN <<>>
    ELSE InsertByPriority(sort_user_agent_tokens(SubSeq(tokens, 1, Len(tokens) - 1)),
                          tokens[Len(tokens)])

----------------------------------------------------------------------------
(* equivalent_major_browser                                                *)

\* get_major_version without the split.
get_major_version_whole(version_str) == version_str

get_major_version(version_str) == SplitFirst(version_str, ".")

\* find_token(*names): the first token whose name is one of names, or None.
find_token(user_agent_tokens, names) ==
    LET matches == {i \in 1..Len(user_agent_tokens) : user_agent_tokens[i].name \in names}
    IN  IF matches = {} THEN None
        ELSE Some(user_agent_tokens[CHOOSE i \in matches : \A j \in matches : i <= j])

Value(name, version) == [kind |-> "value", name |-> name, version |-> version, error |-> ""]

NoMatch == [kind |-> "none", name |-> "", version |-> "", error |-> ""]

Raised(error) == [kind |-> "raise", name |-> "", version |-> "", error |-> error]

\* return (name, get_major_version(token[1])): str.split on a version that
\* is None raises AttributeError.
ReturnMajor(name, token) ==
    IF token.version = None THEN Raised("AttributeError")
    ELSE Value(name, get_major_version(token.version[1]))

IosPrefixes == {"iPhone OS ", "CPU OS "}

\* re.search("(?:iPhone|CPU) OS ([0-9_]+)", s): group 1 of the leftmost
\* match, or None.
IosVersionMatch(s) ==
    LET hit(p, lit) == /\ StartsWithAt(s, p, lit)
                       /\ RunEnd(s, p + Len(lit), "[0-9_]") > p + Len(lit)
        starts == {p \in 0..(Len(s) - 1) : \E lit \in IosPrefixes : hit(p, lit)}
        p0 == Least(starts)
        lit0 == CHOOSE lit \in IosPrefixes : hit(p0, lit)
    IN  IF starts = {} THEN None
        ELSE Some(Slice(s, p0 + Len(lit0), RunEnd(s, p0 + Len(lit0), "[0-9_]")))

\* re.search("Mac OS X ([0-9]+_[0-9_]+)", s): group 1 of the leftmost match,
\* or None.
MacosVersionMatch(s) ==
    LET lit == "Mac OS X "
        digitsEnd(p) == RunEnd(s, p + Len(lit), "[0-9]")
        groupEnd(p) == RunEnd(s, digitsEnd(p) + 1, "[0-9_]")
        hit(p) == /\ StartsWithAt(s, p, lit)
                  /\ digitsEnd(p) > p + Len(lit)
                  /\ digitsEnd(p) < Len(s)
                  /\ Ch(s, digitsEnd(p)) = "_"
                  /\ groupEnd(p) > digitsEnd(p) + 1
        starts == {p \in 0..(Len(s) - 1) : hit(p)}
        p0 == Least(starts)
    IN  IF starts = {} THEN None
        ELSE Some(Slice(s, p0 + Len(lit), groupEnd(p0)))

\* re.search("Trident/7.0; rv:([0-9.]+)", s): group 1 of the leftmost match,
\* or None. The "." of "7.0" is the regex wildcard.
TridentMatch(s) ==
    LET head == "Trident/7"
        tail == "0; rv:"
        from(p) == p + Len(head) + 1 + Len(tail)
        hit(p) == /\ StartsWithAt(s, p, head)
                  /\ StartsWithAt(s, p + Len(head) + 1, tail)
                  /\ RunEnd(s, from(p), "[0-9.]") > from(p)
        starts == {p \in 0..(Len(s) - 1) : hit(p)}
        p0 == Least(starts)
    IN  IF starts = {} THEN None
        ELSE Some(Slice(s, from(p0), RunEnd(s, from(p0), "[0-9.]")))

\* (a, b) <= (c, d) on tuples of two integers.
PairLeq(a, b, c, d) == a < c \/ (a = c /\ b <= d)

\* The branch taken after macos_version_match: the components of group are
\* split on "_", the first two are converted with int() (ValueError on an
\* empty component), and safari_version is bound only from 10.10 on.
MacosInference(group) ==
    LET parts == Split(group, "_")
        major_version == parts[1]
        minor_version == parts[2]
        major == ParseInt(major_version)
        minor == ParseInt(minor_version)
    IN  IF ~IsDecimal(major_version) \/ ~IsDecimal(minor_version) THEN Raised("ValueError")
        ELSE IF PairLeq(10, 10, major, minor) /\ PairLeq(major, minor, 10, 14)
             THEN Value("Safari", minor_version)
        ELSE IF ~PairLeq(major, minor, 10, 14)
             \* the int 14, which the CSV writer prints as "14"
             THEN Value("Safari", "14")
        ELSE Raised("UnboundLocalError")

\* The fallback on the comment of the Mozilla token.
PlatformInference(platform_info) ==
    IF IosVersionMatch(platform_info) # None
    THEN Value("Safari", get_major_version(Replace(IosVersionMatch(platform_info)[1], "_", ".")))
    ELSE IF MacosVersionMatch(platform_info) # None
         THEN MacosInference(MacosVersionMatch(platform_info)[1])
    ELSE IF TridentMatch(platform_info) # None
         THEN Value("Internet Explorer", get_major_version(TridentMatch(platform_info)[1]))
    ELSE NoMatch

ChromeNames == {"Chrome", "Brave Chrome", "like Chrome", "HeadlessChrome"}

equivalent_major_browser(user_agent_tokens) ==
    LET edge_legacy_token == find_token(user_agent_tokens, {"Edge"})
        firefox_token == find_token(user_agent_tokens, {"Firefox"})
        chrome_token == find_token(user_agent_tokens, ChromeNames)
        safari_token == find_token(user_agent_tokens, {"Version"})
        moz_token == find_token(user_agent_tokens, {"Mozilla"})
        platform_info == IF moz_token # None THEN moz_token[1].comment ELSE None
    IN  IF edge_legacy_token # None THEN ReturnMajor("Edge (Legacy)", edge_legacy_token[1])
        ELSE IF firefox_token # None THEN ReturnMajor("Firefox", firefox_token[1])
        ELSE IF chrome_token # None THEN ReturnMajor("Chrome", chrome_token[1])
        ELSE IF safari_token # None THEN ReturnMajor("Safari", safari_token[1])
        ELSE IF platform_info # None /\ platform_info # Some("")
             THEN PlatformInference(platform_info[1])
        ELSE NoMatch

----------------------------------------------------------------------------
(* ua_product_name_to_browser, is_user_agent_a_bot                         *)

\* ua_product_name_to_browser.get(name) or name
DisplayName(name) ==
    CASE name = "CriOS"   -> "Chrome (iOS)"
      [] name = "Edg"     -> "Edge (Modern)"
      [] name = "Edge"    -> "Edge (Legacy)"
      [] name = "OPR"     -> "Opera"
      [] name = "Version" -> "Safari"
      [] OTHER            -> name

\* A term of a comment: stripped, and cut at its first "/".
CommentTerm(ct) == SplitFirst(Strip(ct), "/")

\* The set `terms`: every token's name and every term of every comment.
BotTerms(tokens) ==
    {tokens[i].name : i \in 1..Len(tokens)}
    \cup UNION {IF tokens[i].comment = None THEN {}
                ELSE {CommentTerm(Split(tokens[i].comment[1], ";")[k]) :
                         k \in 1..Len(Split(tokens[i].comment[1], ";"))} :
                i \in 1..Len(tokens)}

\* re.match(".*bot$", term, re.IGNORECASE)
EndsWithBot(term) ==
    /\ Len(term) >= 3
    /\ Lower(Ch(term, Len(term) - 3)) = "b"
    /\ Lower(Ch(term, Len(term) - 2)) = "o"
    /\ Lower(Ch(term, Len(term) - 1)) = "t"

\* re.search("[^A-Za-z]bot[^A-Za-z]", name, re.IGNORECASE)
HasDelimitedBot(name) ==
    \E p \in 0..(Len(name) - 5) :
        /\ ~IsLetter(Ch(name, p))
        /\ Lower(Ch(name, p + 1)) = "b"
        /\ Lower(Ch(name, p + 2)) = "o"
        /\ Lower(Ch(name, p + 3)) = "t"
        /\ ~IsLetter(Ch(name, p + 4))

\* The second test of the loop over terms reads `name`, the variable the
\* collecting loop left bound to the last token's name, on every iteration.
is_user_agent_a_bot(tokens) ==
    \E term \in BotTerms(tokens) :
        EndsWithBot(term) \/ HasDelimitedBot(tokens[Len(tokens)].name)

----------------------------------------------------------------------------
(* parse_nginx_combined_log                                                *)

\* combined_pat tried at start position p. Every group is a longest run
\* closed by a character outside its class, so the start decides the match.
\* user_agent is group 8.
MatchAt(line, p) ==
    LET userEnd    == RunEnd(line, p + 7, "[^ ]")
        timeEnd    == RunEnd(line, userEnd + 2, "[^]]")
        requestEnd == RunEnd(line, timeEnd + 3, "[^\"]")
        statusEnd  == RunEnd(line, requestEnd + 2, "[0-9]")
        sizeEnd    == RunEnd(line, statusEnd + 1, "[0-9]")
        refEnd     == RunEnd(line, sizeEnd + 2, "[^\"]")
        agentEnd   == RunEnd(line, refEnd + 3, "[^\"]")
        matched    == /\ \A i \in 0..3 : p + i < Len(line) /\ InClass("[0-9.]", Ch(line, p + i))
                      /\ StartsWithAt(line, p + 4, " - ")
                      /\ userEnd > p + 7
                      /\ StartsWithAt(line, userEnd, " [")
                      /\ timeEnd > userEnd + 2
                      /\ StartsWithAt(line, timeEnd, "] \"")
                      /\ StartsWithAt(line, requestEnd, "\" ")
                      /\ statusEnd > requestEnd + 2
                      /\ StartsWithAt(line, statusEnd, " ")
                      /\ sizeEnd > statusEnd + 1
                      /\ StartsWithAt(line, sizeEnd, " \"")
                      /\ StartsWithAt(line, refEnd, "\" \"")
                      /\ StartsWithAt(line, agentEnd, "\"")
    IN  IF matched
        THEN [matched |-> TRUE, user_agent |-> Slice(line, refEnd + 3, agentEnd)]
        ELSE [matched |-> FALSE, user_agent |-> ""]

\* re.search(combined_pat, line): the leftmost start that matches wins.
CombinedMatch(line) ==
    LET starts == {p \in 0..(Len(line) - 1) : MatchAt(line, p).matched}
    IN  IF starts = {} THEN [matched |-> FALSE, user_agent |-> ""]
        ELSE MatchAt(line, Least(starts))

----------------------------------------------------------------------------
(* Inputs                                                                  *)

\* The most product pieces joined into one generated header.
MaxTokens == 2

\* The most log lines in a batch of several lines.
MaxLines == 3

\* The longest text generated behind an opening parenthesis.
MaxLen == 3

\* The most rows of a CSV file.
MaxRows == 3

\* Pieces of User-Agent headers: product tokens with and without version
\* and comment, the platform comments the resolver reads, bot names.
Pieces ==
    {"Mozilla/5.0",
     "Mozilla/5.0 (Macintosh; Intel Mac OS X 10_12_6)",
     "Mozilla/5.0 (Macintosh; Intel Mac OS X 10_9_5)",
     "Mozilla/5.0 (Macintosh; Intel Mac OS X 11_0)",
     "Mozilla/5.0 (iPhone; CPU iPhone OS 14_2 like Mac OS X)",
     "Mozilla/5.0 (Windows NT 6.1; Trident/7.0; rv:11.0)",
     "Mozilla/5.0 (compatible; Googlebot/2.1)",
     "AppleWebKit/537.36 (KHTML, like Gecko)",
     "Edge/18.17763", "Edge",
     "Firefox/88.0", "Firefox",
     "Chrome/80.0.3987", "HeadlessChrome",
     "Version/14.0.1",
     "Safari/604.1", "Gecko/20100101",
     "CriOS/87.0", "Shiny/2.0", "Other",
     "Pingdom_bot_1.0/2"}

RECURSIVE Joined(_)
\* The headers made of at most n pieces, joined by single spaces.
Joined(n) ==
    IF n = 0 THEN {}
    ELSE Pieces \cup {h \o " " \o piece : h \in Joined(n - 1), piece \in Pieces}

\* Headers of more tokens than MaxTokens pieces give.
SampleHeaders ==
    {"Mozilla/5.0 (Windows NT 10.0; Win64; x64) AppleWebKit/537.36 (KHTML, like Gecko) Chrome/90.0.4430.212 Safari/537.36",
     "Mozilla/5.0 (iPhone; CPU iPhone OS 14_2 like Mac OS X) AppleWebKit/605.1.15 (KHTML, like Gecko) Version/14.0 Mobile/15E148 Safari/604.1",
     "Mozilla/5.0 (FooOS; x64; BarPhone (6)) ShinyBrowser/2.0",
     "Mozilla/5.0 Shiny/2.0 Chrome/80 Other/1.0 Safari/537.36 Shiny/3.0 Chrome/81 Gecko/20100101",
     "Mozilla/5.0 (Windows NT 10.0) Chrome/80.0 Safari/537.36 Edge/18.17763",
     "Pingdom_bot_1.0/2 Shiny/2.0 Mozilla/5.0",
     "Mozilla/5.0 (X11) Firefox Chrome/80.0", "Mozilla/5.0 (X11) Version",
     "OPR", "FooBot/1",
     "", "   "}

CommentAlphabet == {"a", "(", ")", " "}

RECURSIVE Texts(_)
\* The strings over CommentAlphabet of length at most n.
Texts(n) ==
    IF n = 0 THEN {""}
    ELSE Texts(n - 1) \cup {t \o c : t \in Texts(n - 1), c \in CommentAlphabet}

\* Headers whose first token is followed by an opening parenthesis and any
\* short text, and headers where that follows a token with a closed comment.
CommentHeaders ==
    {"Foo/1 (" \o t : t \in Texts(MaxLen)} \cup {"Foo (" \o t : t \in Texts(MaxLen)}
    \cup {"A/1 (x) B/2 (" \o t : t \in Texts(MaxLen)}

Headers == Joined(MaxTokens) \cup SampleHeaders \cup CommentHeaders

\* A line of the access log in the "combined" format.
LogLine(user_agent) ==
    "10.0.0.1 - - [04/Nov/2026] \"GET /\" 200 512 \"-\" \"" \o user_agent \o "\""

\* Lines that are not in the combined format: free text, and a line with
\* one quoted field too few.
MalformedLines ==
    {"upstream timed out",
     "10.0.0.1 - - [04/Nov/2026] \"GET /\" 200 512 \"Mozilla/5.0\""}

\* The lines batches of several lines are made of.
BatchLines ==
    MalformedLines
    \cup {LogLine(h) : h \in {"-", "Mozilla/5.0 Chrome/80.0.3987", "OPR",
                              "Mozilla/5.0 (compatible; Googlebot/2.1)"}}
    \cup {"  web.1: " \o LogLine("CriOS/87.0") \o " "}

RECURSIVE SeqsUpTo(_, _)
\* The sequences over S of length at most n.
SeqsUpTo(S, n) ==
    IF n = 0 THEN {<<>>}
    ELSE SeqsUpTo(S, n - 1)
         \cup {Append(q, x) : q \in {r \in SeqsUpTo(S, n - 1) : Len(r) = n - 1}, x \in S}

Batches == {<<LogLine(h)>> : h \in Headers} \cup SeqsUpTo(BatchLines, MaxLines)

----------------------------------------------------------------------------
(* State                                                                   *)

VARIABLES
    stdin,          \* parse_access_log: the lines not yet read
    status,         \* "running", "exited", or "raised" (ended by an exception)
    exc,            \* the exception that ended the program, or ""
    pc,             \* the statement of the main loop that runs next
    entry,          \* entry.user_agent
    tokens,         \* the global `tokens`
    compat_token,   \* the global `compat_token`
    stdout,         \* the CSV rows written
    stderr,         \* the headers reported as unparsable
    query,          \* analyze_stats: the query argument
    csv_file,       \* the rows of the CSV file not yet read
    terms,          \* the parsed query
    n_skipped_rows,
    n_valid_rows,
    n_matches,
    stats_status,   \* "idle", "reading", "exited", or "raised"
    stats_exc,      \* the exception that ended the run, or ""
    stats_out       \* what the run printed

logVars == <<stdin, status, exc, pc, entry, tokens, compat_token, stdout, stderr>>

statsVars == <<query, csv_file, terms, n_skipped_rows, n_valid_rows, n_matches,
               stats_status, stats_exc, stats_out>>

vars == <<logVars, statsVars>>

LogIdle ==
    /\ stdin = <<>>
    /\ status = "idle"
    /\ exc = ""
    /\ pc = "for"
    /\ entry = ""
    /\ tokens = <<>>
    /\ compat_token = NoMatch
    /\ stdout = <<>>
    /\ stderr = <<>>

StatsIdle ==
    /\ query = ""
    /\ csv_file = <<>>
    /\ terms = <<>>
    /\ n_skipped_rows = 0
    /\ n_valid_rows = 0
    /\ n_matches = 0
    /\ stats_status = "idle"
    /\ stats_exc = ""
    /\ stats_out = <<>>

----------------------------------------------------------------------------
(* parse_access_log.py: the main loop. pc is "for" at the head of the     *)
(* loop, "entry" with an entry in hand, "parsed" after parse_user_agent,  *)
(* "sorted" after sort_user_agent_tokens, "resolved" after                *)
(* equivalent_major_browser. An exception leaves pc at the statement that *)
(* raised it.                                                              *)

Init ==
    /\ stdin \in Batches
    /\ status = "running"
    /\ exc = ""
    /\ pc = "for"
    /\ entry = ""
    /\ tokens = <<>>
    /\ compat_token = NoMatch
    /\ stdout = <<>>
    /\ stderr = <<>>
    /\ StatsIdle

At(statement) == status = "running" /\ pc = statement

\* The next line as the generator expression hands it on: line.strip().
NextLine == Strip(Head(stdin))

\* The row csv_writer.writerow gets; version_major and the compat fields
\* are None or a string.
Row(ranked, compat, user_agent) ==
    [name           |-> DisplayName(ranked[1].name),
     version_major  |-> IF ranked[1].version # None
                        THEN Some(get_major_version(ranked[1].version[1]))
                        ELSE None,
     compat_name    |-> IF compat.kind = "value" THEN Some(compat.name) ELSE None,
     compat_version |-> IF compat.kind = "value" THEN Some(compat.version) ELSE None,
     user_agent     |-> user_agent]

\* The generator yields the entry of the next line.
NextEntry ==
    /\ At("for")
    /\ stdin # <<>>
    /\ CombinedMatch(NextLine).matched
    /\ entry' = CombinedMatch(NextLine).user_agent
    /\ stdin' = Tail(stdin)
    /\ pc' = "entry"
    /\ UNCHANGED <<status, exc, tokens, compat_token, stdout, stderr, statsVars>>

\* LineRaises with the line skipped and the loop going on.
LineSkipped ==
    /\ At("for")
    /\ stdin # <<>>
    /\ ~CombinedMatch(NextLine).matched
    /\ stdin' = Tail(stdin)
    /\ UNCHANGED <<status, exc, pc, entry, tokens, compat_token, stdout, stderr, statsVars>>

\* The line does not match the combined format: the generator raises,
\* which ends the for loop and the program.
LineRaises ==
    /\ At("for")
    /\ stdin # <<>>
    /\ ~CombinedMatch(NextLine).matched
    /\ stdin' = Tail(stdin)
    /\ status' = "raised"
    /\ exc' = "Exception"
    /\ UNCHANGED <<pc, entry, tokens, compat_token, stdout, stderr, statsVars>>

\* stdin is exhausted: the program ends.
EndOfInput ==
    /\ At("for")
    /\ stdin = <<>>
    /\ status' = "exited"
    /\ UNCHANGED <<stdin, exc, pc, entry, tokens, compat_token, stdout, stderr, statsVars>>

\* entry.user_agent == "-": continue.
SkipNoUserAgent ==
    /\ At("entry")
    /\ entry = "-"
    /\ pc' = "for"
    /\ UNCHANGED <<stdin, status, exc, entry, tokens, compat_token, stdout, stderr, statsVars>>

\* tokens = parse_user_agent(entry.user_agent)
ParseHeader ==
    /\ At("entry")
    /\ entry # "-"
    /\ parse_user_agent(entry).kind = "ok"
    /\ tokens' = parse_user_agent(entry).tokens
    /\ pc' = "parsed"
    /\ UNCHANGED <<stdin, status, exc, entry, compat_token, stdout, stderr, statsVars>>

\* parse_user_agent raises.
ParseRaises ==
    /\ At("entry")
    /\ entry # "-"
    /\ parse_user_agent(entry).kind = "raise"
    /\ status' = "raised"
    /\ exc' = parse_user_agent(entry).error
    /\ UNCHANGED <<stdin, pc, entry, tokens, compat_token, stdout, stderr, statsVars>>

\* is_user_agent_a_bot(tokens): continue.
SkipBot ==
    /\ At("parsed")
    /\ is_user_agent_a_bot(tokens)
    /\ pc' = "for"
    /\ UNCHANGED <<stdin, status, exc, entry, tokens, compat_token, stdout, stderr, statsVars>>

\* tokens = sort_user_agent_tokens(tokens)
SortTokens ==
    /\ At("parsed")
    /\ ~is_user_agent_a_bot(tokens)
    /\ tokens' = sort_user_agent_tokens(tokens)
    /\ pc' = "sorted"
    /\ UNCHANGED <<stdin, status, exc, entry, compat_token, stdout, stderr, statsVars>>

\* compat_token = equivalent_major_browser(tokens)
ResolveEngine ==
    /\ At("sorted")
    /\ equivalent_major_browser(tokens).kind # "raise"
    /\ compat_token' = equivalent_major_browser(tokens)
    /\ pc' = "resolved"
    /\ UNCHANGED <<stdin, status, exc, entry, tokens, stdout, stderr, statsVars>>

\* equivalent_major_browser raises.
ResolveRaises ==
    /\ At("sorted")
    /\ equivalent_major_browser(tokens).kind = "raise"
    /\ status' = "raised"
    /\ exc' = equivalent_major_browser(tokens).error
    /\ UNCHANGED <<stdin, pc, entry, tokens, compat_token, stdout, stderr, statsVars>>

\* The header gave tokens: a row is written.
WriteRow ==
    /\ At("resolved")
    /\ tokens # <<>>
    /\ stdout' = Append(stdout, Row(tokens, compat_token, entry))
    /\ pc' = "for"
    /\ UNCHANGED <<stdin, status, exc, entry, tokens, compat_token, stderr, statsVars>>

\* The header gave no token: "Failed to parse user agent" on stderr.
ReportUnparsable ==
    /\ At("resolved")
    /\ tokens = <<>>
    /\ stderr' = Append(stderr, entry)
    /\ pc' = "for"
    /\ UNCHANGED <<stdin, status, exc, entry, tokens, compat_token, stdout, statsVars>>

Next ==
    \/ NextEntry
    \/ LineRaises
    \/ EndOfInput
    \/ SkipNoUserAgent
    \/ ParseHeader
    \/ ParseRaises
    \/ SkipBot
    \/ SortTokens
    \/ ResolveEngine
    \/ ResolveRaises
    \/ WriteRow
    \/ ReportUnparsable

Spec == Init /\ [][Next]_vars

----------------------------------------------------------------------------
(* analyze_stats.py                                                        *)

\* The relations in the order the pattern of parse_query lists them.
Relations == <<"<", "<=", "==", ">=", ">">>

\* re.match("(\w+)\s*(<|<=|==|>=|>)\s*(\d+)", term): the engine is the
\* longest run of \w, the relation the first alternative behind which
\* digits follow; what follows the digits is not looked at.
TermMatch(term) ==
    LET engineEnd == RunEnd(term, 0, "\\w")
        relStart == RunEnd(term, engineEnd, "\\s")
        digitsStart(rel) == RunEnd(term, relStart + Len(rel), "\\s")
        fits(rel) == /\ StartsWithAt(term, relStart, rel)
                     /\ RunEnd(term, digitsStart(rel), "[0-9]") > digitsStart(rel)
        alternatives == {i \in 1..Len(Relations) : fits(Relations[i])}
        relation == Relations[CHOOSE i \in alternatives : \A j \in alternatives : i <= j]
    IN  IF engineEnd = 0 \/ alternatives = {}
        THEN [matched |-> FALSE, engine |-> "", relation |-> "", version |-> 0]
        ELSE [matched  |-> TRUE,
              engine   |-> Slice(term, 0, engineEnd),
              relation |-> relation,
              version  |-> ParseInt(Slice(term, digitsStart(relation),
                                          RunEnd(term, digitsStart(relation), "[0-9]")))]

\* parse_query: the matchers of the comma-separated terms, or ValueError
\* at the first term that does not match.
parse_query(q) ==
    LET parts == Split(q, ",")
    IN  IF \E i \in 1..Len(parts) : ~TermMatch(parts[i]).matched
        THEN [kind |-> "raise", terms |-> <<>>, error |-> "ValueError"]
        ELSE [kind |-> "ok",
              terms |-> [i \in 1..Len(parts) |->
                            [engine   |-> TermMatch(parts[i]).engine,
                             version  |-> TermMatch(parts[i]).version,
                             relation |-> TermMatch(parts[i]).relation]],
              error |-> ""]

\* BrowserVersionTerm.matches
matches(term, engine, version) ==
    /\ LowerStr(term.engine) = LowerStr(engine)
    /\ CASE term.relation = ">"  -> version > term.version
         [] term.relation = ">=" -> version >= term.version
         [] term.relation = "==" -> version = term.version
         [] term.relation = "<=" -> version <= term.version
         [] term.relation = "<"  -> version < term.version
         [] OTHER -> FALSE

\* The digits of a literal int() accepts: digits, single underscores
\* between them.
IsIntBody(s) ==
    /\ Len(s) > 0
    /\ RunEnd(s, 0, "[0-9_]") = Len(s)
    /\ Ch(s, 0) # "_"
    /\ Ch(s, Len(s) - 1) # "_"
    /\ \A q \in 0..(Len(s) - 2) : ~(Ch(s, q) = "_" /\ Ch(s, q + 1) = "_")

\* int(s): surrounding whitespace and a sign are allowed. The result is
\* the value, or ValueError.
ToInt(s) ==
    LET t == Strip(s)
        signed == Len(t) > 0 /\ Ch(t, 0) \in {"+", "-"}
        body == IF signed THEN From(t, 1) ELSE t
        magnitude == ParseInt(Replace(body, "_", ""))
    IN  IF IsIntBody(body)
        THEN [kind |-> "ok", value |-> IF signed /\ Ch(t, 0) = "-" THEN 0 - magnitude ELSE magnitude]
        ELSE [kind |-> "raise", value |-> 0]

\* Whether the loop body skips the row: the wrong number of columns, no
\* engine or engine version, or an engine version that is no number.
Skipped(row) ==
    IF Len(row) # 5 THEN TRUE
    ELSE IF row[3] = "" \/ row[4] = "" THEN TRUE
    ELSE ToInt(row[4]).kind = "raise"

\* The rows CSV files are made of: the rows parse_access_log writes (None is
\* written as the empty field), and rows of other shapes.
CsvRows ==
    {<<"Chrome", "80", "Chrome", "80", "Mozilla/5.0 Chrome/80.0">>,
     <<"Chrome", "91", "Chrome", "91", "Mozilla/5.0 Chrome/91.0">>,
     <<"Firefox", "88", "Firefox", " 88", "Mozilla/5.0 Firefox/88.0">>,
     <<"Shiny", "2", "", "", "Shiny/2.0">>,
     <<"Shiny", "", "Safari", "12a", "Shiny">>,
     <<"Chrome", "80">>,
     <<>>}

Queries == {"chrome>=90,firefox>=88", "Chrome<81", "safari == 14", "chrome=>90", ""}

InitStats ==
    /\ LogIdle
    /\ query \in Queries
    /\ csv_file \in SeqsUpTo(CsvRows, MaxRows)
    /\ terms = <<>>
    /\ n_skipped_rows = 0
    /\ n_valid_rows = 0
    /\ n_matches = 0
    /\ stats_status = "start"
    /\ stats_exc = ""
    /\ stats_out = <<>>

\* terms = parse_query(args.query)
ParseQuery ==
    /\ stats_status = "start"
    /\ parse_query(query).kind = "ok"
    /\ terms' = parse_query(query).terms
    /\ stats_status' = "reading"
    /\ UNCHANGED <<query, csv_file, n_skipped_rows, n_valid_rows, n_matches,
                   stats_exc, stats_out, logVars>>

\* parse_query raises: the run ends before a row is read.
QueryRaises ==
    /\ stats_status = "start"
    /\ parse_query(query).kind = "raise"
    /\ stats_status' = "raised"
    /\ stats_exc' = parse_query(query).error
    /\ UNCHANGED <<query, csv_file, terms, n_skipped_rows, n_valid_rows, n_matches,
                   stats_out, logVars>>

\* An iteration of the loop over the rows that ends in `continue`.
SkipRow ==
    /\ stats_status = "reading"
    /\ csv_file # <<>>
    /\ Skipped(Head(csv_file))
    /\ csv_file' = Tail(csv_file)
    /\ n_skipped_rows' = n_skipped_rows + 1
    /\ UNCHANGED <<query, terms, n_valid_rows, n_matches, stats_status, stats_exc,
                   stats_out, logVars>>

\* An iteration of the loop over the rows that counts the row.
CountRow ==
    /\ stats_status = "reading"
    /\ csv_file # <<>>
    /\ ~Skipped(Head(csv_file))
    /\ csv_file' = Tail(csv_file)
    /\ n_valid_rows' = n_valid_rows + 1
    /\ n_matches' = IF \E i \in 1..Len(terms) :
                          matches(terms[i], Head(csv_file)[3], ToInt(Head(csv_file)[4]).value)
                    THEN n_matches + 1
                    ELSE n_matches
    /\ UNCHANGED <<query, terms, n_skipped_rows, stats_status, stats_exc, stats_out, logVars>>

\* What is printed before the two percentages are computed.
Diagnostic == IF n_valid_rows = 0 THEN <<[line |-> "CSV file is empty"]>> ELSE <<>>

\* The line "{total_rows} rows, {n_valid_rows} valid (...%), {n_skipped_rows}
\* skipped"; the percentage is kept as the quotient it is computed from.
RowsLine ==
    [line |-> "rows", total_rows |-> n_valid_rows + n_skipped_rows,
     n_valid_rows |-> n_valid_rows, n_skipped_rows |-> n_skipped_rows]

\* The line "...% of rows match query", as the quotient it is computed from.
MatchLine == [line |-> "match", n_matches |-> n_matches, n_valid_rows |-> n_valid_rows]

\* The statements behind the loop, with n_valid_rows > 0: both divisions
\* have a divisor that is not 0.
Report ==
    /\ stats_status = "reading"
    /\ csv_file = <<>>
    /\ n_valid_rows # 0
    /\ stats_out' = stats_out \o Diagnostic \o <<RowsLine, MatchLine>>
    /\ stats_status' = "exited"
    /\ UNCHANGED <<query, csv_file, terms, n_skipped_rows, n_valid_rows, n_matches,
                   stats_exc, logVars>>

\* The statements behind the loop, with n_valid_rows = 0: the diagnostic
\* is printed and the run goes on to the divisions. n_valid_rows /
\* total_rows raises when no row was read at all, n_matches / n_valid_rows
\* otherwise.
ReportRaises ==
    /\ stats_status = "reading"
    /\ csv_file = <<>>
    /\ n_valid_rows = 0
    /\ stats_out' = stats_out \o Diagnostic
                    \o (IF n_valid_rows + n_skipped_rows # 0 THEN <<RowsLine>> ELSE <<>>)
    /\ stats_status' = "raised"
    /\ stats_exc' = "ZeroDivisionError"
    /\ UNCHANGED <<query, csv_file, terms, n_skipped_rows, n_valid_rows, n_matches, logVars>>

NextStats ==
    \/ ParseQuery
    \/ QueryRaises
    \/ SkipRow
    \/ CountRow
    \/ Report
    \/ ReportRaises

SpecStats == InitStats /\ [][NextStats]_vars

----------------------------------------------------------------------------
(* Properties                                                              *)

\* equivalent_major_browser has been called on the ranked tokens.
Resolved == pc = "resolved" \/ (pc = "sorted" /\ status = "raised")

\* What that call gave: the value returned, or the exception raised.
ResolverResult == IF pc = "resolved" THEN compat_token ELSE Raised(exc)

\* The ranked tokens have been computed.
Ranked == pc \in {"sorted", "resolved"}

HasToken(names) == \E i \in 1..Len(tokens) : tokens[i].name \in names

\* m is the first dot-separated component of v.
IsMajorOf(m, v) == /\ Find(m, ".") = -1
                   /\ m = v \/ StartsWithAt(v, 0, m \o ".")

\* The result is (engine, major version of a token named one of names).
GivesMajorOf(names, engine) ==
    \E i \in 1..Len(tokens) :
        /\ tokens[i].name \in names
        /\ tokens[i].version # None
        /\ ResolverResult.kind = "value"
        /\ ResolverResult.name = engine
        /\ IsMajorOf(ResolverResult.version, tokens[i].version[1])

\* C1: the resolver applies its rules in a fixed order, first match wins:
\* with a token named Edge the result is ("Edge (Legacy)", major of its
\* version) whatever else is present; otherwise with a Firefox token it is
\* Firefox; otherwise with a Chrome-family token it is Chrome; otherwise
\* with a Version token it is Safari.
C1_FirstMatchWins ==
    Resolved =>
        IF HasToken({"Edge"}) THEN GivesMajorOf({"Edge"}, "Edge (Legacy)")
        ELSE IF HasToken({"Firefox"}) THEN GivesMajorOf({"Firefox"}, "Firefox")
        ELSE IF HasToken({"Chrome", "Brave Chrome", "like Chrome", "HeadlessChrome"})
             THEN GivesMajorOf({"Chrome", "Brave Chrome", "like Chrome", "HeadlessChrome"},
                               "Chrome")
        ELSE IF HasToken({"Version"}) THEN GivesMajorOf({"Version"}, "Safari")
        ELSE TRUE

DirectNames ==
    {"Edge", "Firefox", "Chrome", "Brave Chrome", "like Chrome", "HeadlessChrome", "Version"}

\* The comment of the first Mozilla token, or "".
MozillaComment ==
    LET moz == {i \in 1..Len(tokens) : tokens[i].name = "Mozilla"}
        first == tokens[CHOOSE i \in moz : \A j \in moz : i <= j]
    IN  IF moz = {} THEN ""
        ELSE IF first.comment = None THEN ""
        ELSE first.comment[1]

\* The resolver is in its macOS fallback with a major and a minor number.
InMacosFallback ==
    /\ Resolved
    /\ ~HasToken(DirectNames)
    /\ IosVersionMatch(MozillaComment) = None
    /\ TridentMatch(MozillaComment) = None
    /\ MacosVersionMatch(MozillaComment) # None
    /\ IsDecimal(Split(MacosVersionMatch(MozillaComment)[1], "_")[1])
    /\ IsDecimal(Split(MacosVersionMatch(MozillaComment)[1], "_")[2])

\* C2: in the macOS fallback, (major, minor) in [10.10, 10.14] gives
\* ("Safari", minor), above 10.14 gives Safari 14, and below 10.10 the
\* resolver returns no-match, neither a value nor a failure.
C2_MacosFallback ==
    InMacosFallback =>
        LET parts == Split(MacosVersionMatch(MozillaComment)[1], "_")
            major == ParseInt(parts[1])
            minor == ParseInt(parts[2])
        IN  IF major = 10 /\ minor >= 10 /\ minor <= 14
            THEN ResolverResult = Value("Safari", parts[2])
            ELSE IF major > 10 \/ (major = 10 /\ minor > 14)
                 THEN ResolverResult = Value("Safari", "14")
            ELSE ResolverResult = NoMatch

\* C3: a header with a token whose name has "bot" between non-letters is
\* classified as a bot whichever position that token has: none gets past
\* the bot check to be ranked.
C3_DelimitedBotAnyPosition ==
    Ranked => ~\E i \in 1..Len(tokens) : HasDelimitedBot(tokens[i].name)

\* C4 as claimed: of two ranked tokens with names in the generic-name
\* table, the one whose name is earlier in the table comes first.
C4_EarlierTableEntryFirst ==
    Ranked =>
        \A i, j \in 1..Len(tokens) :
            /\ InTable(tokens[i].name)
            /\ InTable(tokens[j].name)
            /\ TableIndex(tokens[i].name) < TableIndex(tokens[j].name)
            => i < j

\* C4 as amended: of two ranked tokens with names in the generic-name
\* table, the one whose name is later in the table comes first, so that
\* the first table entry (Mozilla) sorts last.
C4_LaterTableEntryFirst ==
    Ranked =>
        \A i, j \in 1..Len(tokens) :
            /\ InTable(tokens[i].name)
            /\ InTable(tokens[j].name)
            /\ TableIndex(tokens[i].name) > TableIndex(tokens[j].name)
            => i < j

\* The sort moved two table tokens of different names past each other.
C4_Witness ==
    /\ pc = "sorted"
    /\ Len(tokens) >= 2
    /\ tokens[1].name = "Chrome"
    /\ tokens[Len(tokens)].name = "Mozilla"
    /\ parse_user_agent(entry).tokens[1].name = "Mozilla"

\* The priority class of a token: its table name, or None outside the table.
PriorityClass(token) == IF InTable(token.name) THEN Some(token.name) ELSE None

OfClass(seq, class) == SelectSeq(seq, LAMBDA t : PriorityClass(t) = class)

\* C5: the ranked tokens are a permutation of the parsed ones, every token
\* with a name outside the table precedes every token with a name in it,
\* and tokens of one priority class keep their relative order.
C5_StablePermutation ==
    pc = "sorted" =>
        LET input == parse_user_agent(entry).tokens
            classes == {PriorityClass(input[i]) : i \in 1..Len(input)}
                       \cup {PriorityClass(tokens[i]) : i \in 1..Len(tokens)}
        IN  /\ Len(tokens) = Len(input)
            /\ \A class \in classes : OfClass(tokens, class) = OfClass(input, class)
            /\ \A i, j \in 1..Len(tokens) :
                   ~InTable(tokens[i].name) /\ InTable(tokens[j].name) => i < j

\* The sort reordered a header with two tokens outside the table, one of
\* them behind a table token, and two tokens of one table name.
C5_Witness ==
    /\ pc = "sorted"
    /\ LET input == parse_user_agent(entry).tokens
       IN  /\ tokens # input
           /\ \E i, j, k \in 1..Len(input) :
                  /\ i < j /\ j < k
                  /\ ~InTable(input[i].name)
                  /\ InTable(input[j].name)
                  /\ ~InTable(input[k].name)
                  /\ input[i] # input[k]
           /\ \E i, j \in 1..Len(input) :
                  i < j /\ InTable(input[i].name) /\ input[i].name = input[j].name
                        /\ input[i] # input[j]

\* The run of analyze_stats got through the rows of the CSV file.
RowsRead == stats_status \in {"exited", "raised"} /\ stats_exc # "ValueError"

\* C6: with zero valid rows the run reports "CSV file is empty" and does
\* not divide by zero.
C6_EmptyCsvReported ==
    RowsRead /\ n_valid_rows = 0 =>
        /\ \E i \in 1..Len(stats_out) : stats_out[i].line = "CSV file is empty"
        /\ stats_exc # "ZeroDivisionError"

RECURSIVE OpenAfter(_, _)
\* The number of parentheses of s open after position p.
OpenAfter(s, p) ==
    IF p < 0 THEN 0
    ELSE OpenAfter(s, p - 1) + (CASE Ch(s, p) = "(" -> 1 [] Ch(s, p) = ")" -> -1 [] OTHER -> 0)

\* The text behind the first token of the header, when it is a comment
\* that is never closed; None otherwise.
UnterminatedComment(header) ==
    LET m == NameVersionMatch(Strip(header))
        rest == Strip(From(Strip(header), m.len))
    IN  IF /\ m.matched
           /\ Len(rest) > 0
           /\ Ch(rest, 0) = "("
           /\ \A p \in 1..(Len(rest) - 1) : OpenAfter(rest, p) > 0
        THEN Some(rest)
        ELSE None

\* parse_user_agent has been called on the header.
ParseCalled == pc = "parsed" \/ (pc = "entry" /\ status = "raised")

\* C7: a header whose token has an unterminated comment is parsed without
\* an exception; the comment is all of the text behind the opening
\* parenthesis, and no token follows.
C7_UnterminatedComment ==
    ParseCalled /\ UnterminatedComment(entry) # None =>
        /\ pc = "parsed"
        /\ tokens = <<Token(NameVersionMatch(Strip(entry)).name,
                            NameVersionMatch(Strip(entry)).version,
                            Some(From(UnterminatedComment(entry)[1], 1)))>>

\* The entries of ua_product_name_to_browser.
AliasTable ==
    {<<"CriOS", "Chrome (iOS)">>, <<"Edg", "Edge (Modern)">>, <<"Edge", "Edge (Legacy)">>,
     <<"OPR", "Opera">>, <<"Version", "Safari">>}

\* display is the alias of name, or name itself when it has none.
IsDisplayNameOf(display, name) ==
    IF \E a \in AliasTable : a[1] = name
    THEN <<name, display>> \in AliasTable
    ELSE display = name

\* The most specific token of the header of a row.
FirstRanked(row) == sort_user_agent_tokens(parse_user_agent(row.user_agent).tokens)[1]

\* C8 as claimed: a row's display name is the alias of the first ranked
\* token's name or the name itself, and its display major version is the
\* first dot-separated component of that token's version, or "unknown"
\* when the token has no version.
C8_VersionOrUnknown ==
    \A i \in 1..Len(stdout) :
        /\ IsDisplayNameOf(stdout[i].name, FirstRanked(stdout[i]).name)
        /\ IF FirstRanked(stdout[i]).version = None
           THEN stdout[i].version_major = Some("unknown")
           ELSE /\ stdout[i].version_major # None
                /\ IsMajorOf(stdout[i].version_major[1], FirstRanked(stdout[i]).version[1])

\* C8 as amended: the display major version is absent (None, an empty CSV
\* field) when the token has no version.
C8_VersionOrNone ==
    \A i \in 1..Len(stdout) :
        /\ IsDisplayNameOf(stdout[i].name, FirstRanked(stdout[i]).name)
        /\ IF FirstRanked(stdout[i]).version = None
           THEN stdout[i].version_major = None
           ELSE /\ stdout[i].version_major # None
                /\ IsMajorOf(stdout[i].version_major[1], FirstRanked(stdout[i]).version[1])

\* Rows were written for a token with an alias and no version, and for a
\* token whose version has several components.
C8_Witness ==
    /\ \E i \in 1..Len(stdout) :
           /\ stdout[i].version_major = None
           /\ stdout[i].name # FirstRanked(stdout[i]).name
    /\ \E i \in 1..Len(stdout) :
           /\ stdout[i].version_major # None
           /\ stdout[i].version_major[1] # FirstRanked(stdout[i]).version[1]

\* C9 as claimed: a malformed log line is skipped and the batch goes on:
\* no run is ended by it.
C9_MalformedLineSkipped == ~(status = "raised" /\ pc = "for" /\ exc = "Exception")

\* C9 as amended: a malformed log line makes the run end with an
\* exception; the User-Agent core is not invoked for it, what was written
\* stays, and no later line is processed.
C9_MalformedLineAborts ==
    [][/\ (At("for") /\ stdin # <<>> /\ ~CombinedMatch(NextLine).matched)
          => /\ status' = "raised"
             /\ exc' = "Exception"
             /\ UNCHANGED <<entry, tokens, compat_token, stdout, stderr>>
       /\ status = "raised" => UNCHANGED vars]_vars

\* A malformed line ended a run with a row written before it and a
\* well-formed line left behind it.
C9_Witness ==
    /\ status = "raised"
    /\ exc = "Exception"
    /\ stdout # <<>>
    /\ stdin # <<>>
    /\ CombinedMatch(Strip(Head(stdin))).matched

\* C10: on the ranked tokens of a header with an Edge, Firefox,
\* Chrome-family or Version token, with a version or without,
\* equivalent_major_browser returns a pair or no-match and never fails.
C10_ResolverTotal ==
    Resolved /\ HasToken(DirectNames) => ResolverResult.kind \in {"value", "none"}

=============================================================================
